---- MODULE Spec2Model ----
(***************************************************************************)
(* A model of peak.cli.options (src/peak/cli/options.py): the per-class    *)
(* option registry with inheritance, the parser synthesizer make_parser,   *)
(* the option callbacks that run during parse, and the parser's exit hook. *)
(*                                                                         *)
(* Five specifications share the module:                                   *)
(*   Spec       classes are declared, options registered and rejected,     *)
(*              registries materialised, parsers built;                    *)
(*   SpecWide   the same with one more class, for diamonds;                *)
(*   SpecOrder  options and groups are constructed and make_parser orders  *)
(*              them;                                                      *)
(*   SpecParse  parse and get_help run against target objects;             *)
(*   SpecExit   the scanning primitive calls the overridden exit.          *)
(*                                                                         *)
(* Option names are atomic tokens; no name of the model is a proper        *)
(* prefix of another, so optparse's long-option abbreviation never         *)
(* applies.                                                                *)
(***************************************************************************)
EXTENDS Integers, Sequences, FiniteSets, TLC

VARIABLES
    optcount,    \* the module-level counter _optcount
    descs,       \* the option descriptor objects made so far: id -> fields
    groups,      \* the Group objects made so far: id -> fields
    classes,     \* the classes defined so far: id -> mro, registry, flag
    body,        \* the class body being executed, if any
    built,       \* the parser the last make_parser call returned
    use_counts,  \* per parser object: its use_counts attribute
    obs,         \* the target objects: id -> attributes
    last,        \* the last parse / get_help call and how it ended
    exitCall,    \* the last call of the parser's exit hook
    ndecls       \* registration / rejection calls made so far

vars == <<optcount, descs, groups, classes, body, built, use_counts, obs,
          last, exitCall, ndecls>>

----------------------------------------------------------------------------
(* Bounds *)

MaxClasses == 3     \* classes defined in one run of Spec
MaxWideClasses == 4 \* classes defined in one run of SpecWide
MaxDecls == 3       \* registration / rejection calls in one run
MaxObjects == 4     \* options and groups constructed in one run (SpecOrder)
MaxSortKey == 1     \* sortKey values 0..MaxSortKey (SpecOrder)
MaxParses == 2      \* parse / get_help calls in one run (SpecParse)
MaxArgs == 4        \* length of an argument list (SpecParse)
MaxMsgLen == 3      \* length of an exit message (SpecExit)
MaxStatus == 2      \* exit statuses 0..MaxStatus (SpecExit)

----------------------------------------------------------------------------
(* Sequences and dictionaries *)

Range(s) == {s[i] : i \in DOMAIN s}

Reverse(s) == [i \in 1..Len(s) |-> s[Len(s) + 1 - i]]

\* All orders in which the elements of S can be enumerated.
RECURSIVE Perms(_)
Perms(S) ==
    IF S = {} THEN {<<>>}
    ELSE UNION {{<<x>> \o p : p \in Perms(S \ {x})} : x \in S}

NoOpt == 0

\* The pair (None, None) that marks a suppressed option name.
NoneEntry == [attr |-> "None", opt |-> NoOpt]

Entry(attrname, d) == [attr |-> attrname, opt |-> d]

EmptyDict == [k \in {} |-> NoneEntry]

\* d[k] = v
Put(d, k, v) == [x \in DOMAIN d \cup {k} |-> IF x = k THEN v ELSE d[x]]

\* d.update(e)
DictUpdate(d, e) ==
    [x \in DOMAIN d \cup DOMAIN e |-> IF x \in DOMAIN e THEN e[x] ELSE d[x]]

----------------------------------------------------------------------------
(* Option and group descriptors *)

Kinds == {"Set", "Add", "Append", "Handler"}

\* The class attribute 'repeatable': True on AbstractOption, False on Set
\* and Handler.
Repeatable(kind) == kind \notin {"Set", "Handler"}

\* _gen_key(): the counter after the call, which is also the key returned.
gen_key(count) == count + 1

\* AbstractOption.__init__ for arguments that pass its checks: at least one
\* option name, and exactly one of type (typed = TRUE; the converter is int)
\* and value. 'function' is the keyword Handler adds ("None" elsewhere).
AbstractOption(kind, option_names, typed, value, sortKey, group, function, count) ==
    [kind |-> kind,
     function |-> function,
     option_names |-> option_names,
     typed |-> typed,
     value |-> IF typed THEN 0 ELSE value,
     nargs |-> IF typed THEN 1 ELSE 0,
     sortKey |-> sortKey,
     group |-> group,
     sort_stable |-> gen_key(count)]

\* Group.__init__
Group(sortKey, count) == [sortKey |-> sortKey, sort_stable |-> gen_key(count)]

NoGroup == 0

----------------------------------------------------------------------------
(* The registry of a class *)

ClassIds == 1..MaxWideClasses

\* A class that is not defined yet has an empty mro. mat: the class has its
\* registry; data: the registry's contents; declared: the entries its class
\* body made; own: the entries the class made itself, in its body or later.
NoClass ==
    [mro |-> <<>>, mat |-> FALSE, data |-> EmptyDict,
     reject_all_inheritance |-> FALSE, declared |-> EmptyDict,
     own |-> EmptyDict]

Defined(cs, c) == Len(cs[c].mro) > 0

\* Registry.set(key, value): a name that already holds another value is
\* refused with ValueError.
RegistrySet(data, key, value) ==
    IF key \in DOMAIN data /\ data[key] # value
    THEN [data |-> data, err |-> TRUE]
    ELSE [data |-> Put(data, key, value), err |-> FALSE]

\* A run of set calls, one per name from position i on, each storing value;
\* the first refused call raises and leaves the earlier ones in place.
RECURSIVE SetAll(_, _, _, _, _)
SetAll(data, own, names, i, value) ==
    IF i > Len(names) THEN [data |-> data, own |-> own, err |-> FALSE]
    ELSE LET r == RegistrySet(data, names[i], value)
         IN IF r.err THEN [data |-> data, own |-> own, err |-> TRUE]
            ELSE SetAll(r.data, Put(own, names[i], value), names, i + 1, value)

\* AbstractOption.register(registry, attrname)
register(ds, d, data, own, attrname) ==
    SetAll(data, own, ds[d].option_names, 1, Entry(attrname, d))

\* The C3 linearisation Python computes for __mro__; a 0 in the result
\* marks bases that cannot be linearised (the class statement fails).
RECURSIVE C3Merge(_)
C3Merge(seqs) ==
    LET ne == SelectSeq(seqs, LAMBDA s : Len(s) > 0)
        good(i) == \A j \in DOMAIN ne : ne[i][1] \notin Range(Tail(ne[j]))
        cand == {i \in DOMAIN ne : good(i)}
    IN IF Len(ne) = 0 THEN <<>>
       ELSE IF cand = {} THEN <<0>>
       ELSE LET i == CHOOSE x \in cand : \A y \in cand : x <= y
                h == ne[i][1]
                rest == [j \in DOMAIN ne |->
                            IF ne[j][1] = h THEN Tail(ne[j]) ELSE ne[j]]
            IN <<h>> \o C3Merge(rest)

Linearise(cs, c, bases) ==
    <<c>> \o C3Merge([i \in 1..Len(bases) |-> cs[bases[i]].mro] \o <<bases>>)

RECURSIVE OptionsRegistry(_, _)
RECURSIVE EnsureFrom(_, _, _)

\* OptionsRegistry(base) for every base in order: each registry that does
\* not exist yet is created on the way.
EnsureFrom(cs, order, i) ==
    IF i > Len(order) THEN cs
    ELSE EnsureFrom(OptionsRegistry(cs, order[i]), order, i + 1)

\* data.update(mytype(base)) for the bases in order, starting from data.
RECURSIVE MergeFrom(_, _, _, _)
MergeFrom(cs, order, i, data) ==
    IF i > Len(order) THEN data
    ELSE MergeFrom(cs, order, i + 1, DictUpdate(data, cs[order[i]].data))

\* The bases of c, most general first: cls.__mro__[::-1][:-1].
BasesOf(cs, c) == SubSeq(Reverse(cs[c].mro), 1, Len(cs[c].mro) - 1)

\* addons.Registry.created_for: the registries of the bases, most general
\* first, are copied into a fresh dictionary, then the entries the class
\* made itself, and the result becomes the registry's contents.
Registry_created_for(cs, c) ==
    LET cs1 == EnsureFrom(cs, BasesOf(cs, c), 1)
        merged == MergeFrom(cs1, BasesOf(cs, c), 1, EmptyDict)
    IN [cs1 EXCEPT ![c].data = DictUpdate(merged, cs1[c].data)]

\* created_for without the blanket rejection.
created_for_keeps_inherited(cs, c) == Registry_created_for(cs, c)

\* OptionsRegistry.created_for
created_for(cs, c) ==
    LET old == cs[c].data
        cs1 == Registry_created_for(cs, c)
        data == cs1[c].data
    IN IF cs1[c].reject_all_inheritance
       THEN [cs1 EXCEPT ![c].data =
                [key \in DOMAIN data |->
                    IF key \notin DOMAIN old THEN NoneEntry ELSE data[key]]]
       ELSE cs1

\* OptionsRegistry(cls): the registry stored on the class, created (and
\* filled by created_for) on first use.
OptionsRegistry(cs, c) ==
    IF cs[c].mat THEN cs
    ELSE created_for([cs EXCEPT ![c].mat = TRUE], c)

----------------------------------------------------------------------------
(* make_parser *)

\* A comparison that looks at the sortKey alone.
KeyLess_sortKey_only(a, b) == a[1] < b[1]

\* Python's comparison of the (sortKey, sort_stable) tuples.
KeyLess(a, b) == a[1] < b[1] \/ (a[1] = b[1] /\ a[2] < b[2])

\* list.sort() on (key, object) pairs; no two keys of one list are equal,
\* so the objects themselves are never compared.
RECURSIVE Insert(_, _)
Insert(s, x) ==
    IF s = <<>> THEN <<x>>
    ELSE IF KeyLess(x.key, s[1].key) THEN <<x>> \o s
    ELSE <<s[1]>> \o Insert(Tail(s), x)

RECURSIVE SortList(_)
SortList(s) ==
    IF s = <<>> THEN <<>>
    ELSE Insert(SortList(SubSeq(s, 1, Len(s) - 1)), s[Len(s)])

\* makeOption that lists every name of the descriptor.
makeOption_all_names(ds, d, attrname, optmap) ==
    [key |-> <<ds[d].sortKey, ds[d].sort_stable>>,
     popt |-> [desc |-> d, attr |-> attrname, names |-> ds[d].option_names,
               nargs |-> ds[d].nargs]]

\* AbstractOption.makeOption(attrname, optmap): the parser option lists the
\* names of the descriptor that optmap maps to this very descriptor.
makeOption(ds, d, attrname, optmap) ==
    LET options == SelectSeq(ds[d].option_names,
                       LAMBDA opt : opt \in DOMAIN optmap /\ optmap[opt] = d)
    IN [key |-> <<ds[d].sortKey, ds[d].sort_stable>>,
        popt |-> [desc |-> d, attr |-> attrname, names |-> options,
                  nargs |-> ds[d].nargs]]

\* Group.makeGroup(parser)
makeGroup(gs, g) ==
    [key |-> <<gs[g].sortKey, gs[g].sort_stable>>,
     popt |-> [group |-> g, option_list |-> <<>>]]

\* The first loop of make_parser: one makeOption per descriptor, filed
\* under the descriptor's group, in the order optinfo lists the names.
RECURSIVE CollectFrom(_, _, _, _, _, _, _)
CollectFrom(ds, data, optmap, optinfo, i, optsused, optlists) ==
    IF i > Len(optinfo) THEN optlists
    ELSE LET e == data[optinfo[i]]
         IN IF e.opt \in optsused \/ e.opt = NoOpt
            THEN CollectFrom(ds, data, optmap, optinfo, i + 1, optsused,
                             optlists)
            ELSE LET g == ds[e.opt].group
                     cur == IF g \in DOMAIN optlists THEN optlists[g]
                            ELSE <<>>
                     lst == Append(cur, makeOption(ds, e.opt, e.attr, optmap))
                 IN CollectFrom(ds, data, optmap, optinfo, i + 1,
                                optsused \cup {e.opt}, Put(optlists, g, lst))

\* The option objects of a sorted list of (key, option) pairs, in order.
Popts(l) == [i \in 1..Len(l) |-> l[i].popt]

\* The second loop of make_parser: the buckets are visited in the order
\* gorder; each bucket is sorted and added to its container.
RECURSIVE GroupsFrom(_, _, _, _, _)
GroupsFrom(gs, optlists, gorder, i, grps) ==
    IF i > Len(gorder) THEN grps
    ELSE IF gorder[i] = NoGroup
    THEN GroupsFrom(gs, optlists, gorder, i + 1, grps)
    ELSE LET m == makeGroup(gs, gorder[i])
             filled == [m EXCEPT !.popt.option_list =
                           Popts(SortList(optlists[gorder[i]]))]
         IN GroupsFrom(gs, optlists, gorder, i + 1, Append(grps, filled))

\* The groups of the descriptors that data holds: the keys of optlists.
BucketKeys(ds, data) ==
    {ds[data[k].opt].group : k \in {x \in DOMAIN data : data[x].opt # NoOpt}}

\* make_parser, given the registry contents of the object's class: optinfo
\* is the order in which items() lists the names, gorder the order in which
\* optlists.items() lists the buckets.
make_parser(ds, gs, data, optinfo, gorder) ==
    LET optmap == [k \in {x \in DOMAIN data : data[x].opt # NoOpt} |->
                      data[k].opt]
        optlists == CollectFrom(ds, data, optmap, optinfo, 1, {}, EmptyDict)
        grps == GroupsFrom(gs, optlists, gorder, 1, <<>>)
    IN [option_list |->
            IF NoGroup \in DOMAIN optlists
            THEN Popts(SortList(optlists[NoGroup])) ELSE <<>>,
        option_groups |-> Popts(SortList(grps))]

NoParser == [option_list |-> <<>>, option_groups |-> <<>>]

\* Every parser option of a parser, grouped or not.
AllOptions(parser) ==
    Range(parser.option_list)
        \cup UNION {Range(parser.option_groups[i].option_list) :
                        i \in DOMAIN parser.option_groups}

\* The option names a parser accepts.
ParserNames(parser) == UNION {Range(o.names) : o \in AllOptions(parser)}

----------------------------------------------------------------------------
(* Spec: classes, declarations and parsers *)

Names == {"-v", "--verbose"}

AttrNames == {"verbose"}

\* Two Set options made before any class: Set('-v', '--verbose', value=1)
\* and Set('-v', value=2).
RegPool ==
    LET d1 == AbstractOption("Set", <<"-v", "--verbose">>, FALSE, 1, 0,
                             NoGroup, "None", 0)
        d2 == AbstractOption("Set", <<"-v">>, FALSE, 2, 0, NoGroup, "None",
                             d1.sort_stable)
    IN <<d1, d2>>

NoBody == [cls |-> 0]

\* The argument tuples of reject_inheritance(*names): one name or more.
RejectArgs ==
    UNION {{s \in [1..n -> Names] : \A i, j \in 1..n : s[i] = s[j] => i = j} :
              n \in 1..Cardinality(Names)}

\* The base lists of a class statement: up to two classes defined before.
BaseLists(cs) ==
    LET D == {c \in ClassIds : Defined(cs, c)}
    IN {<<>>} \cup {<<b>> : b \in D}
        \cup {<<a, b>> : <<a, b>> \in {p \in D \X D : p[1] # p[2]}}

NoLast == [op |-> "none"]
NoExit == [outcome |-> "none"]

InitRest ==
    /\ built = [cls |-> 0, parser |-> NoParser]
    /\ use_counts = <<>>
    /\ obs = <<>>
    /\ last = NoLast
    /\ exitCall = NoExit

Init ==
    /\ optcount = Len(RegPool)
    /\ descs = RegPool
    /\ groups = <<>>
    /\ classes = [c \in ClassIds |-> NoClass]
    /\ body = NoBody
    /\ ndecls = 0
    /\ InitRest

\* 'class C(bases):' is entered; its body starts to run. At most limit
\* classes are defined.
BeginClass(limit, bases) ==
    /\ body = NoBody
    /\ \E c \in 1..limit :
        /\ ~Defined(classes, c)
        /\ \A b \in ClassIds : b < c => Defined(classes, b)
        /\ 0 \notin Range(Linearise(classes, c, bases))
        /\ body' = [cls |-> c, mro |-> Linearise(classes, c, bases),
                    touched |-> FALSE, data |-> EmptyDict,
                    reject_all_inheritance |-> FALSE]
    /\ UNCHANGED <<optcount, descs, groups, classes, built, use_counts, obs,
                   last, exitCall, ndecls>>

\* options.attributes(attrname = d) in the class body; a refused set call
\* raises out of the class body and the class is never created.
BodyAttributes(d, attrname) ==
    /\ body # NoBody
    /\ ndecls < MaxDecls
    /\ ndecls' = ndecls + 1
    /\ LET r == register(descs, d, body.data, body.data, attrname)
       IN body' = IF r.err THEN NoBody
                  ELSE [body EXCEPT !.data = r.data, !.touched = TRUE]
    /\ UNCHANGED <<optcount, descs, groups, classes, built, use_counts, obs,
                   last, exitCall>>

\* options.reject_inheritance(*names) in the class body, names given.
BodyReject(names) ==
    /\ body # NoBody
    /\ ndecls < MaxDecls
    /\ ndecls' = ndecls + 1
    /\ LET r == SetAll(body.data, body.data, names, 1, NoneEntry)
       IN body' = IF r.err THEN NoBody
                  ELSE [body EXCEPT !.data = r.data, !.touched = TRUE]
    /\ UNCHANGED <<optcount, descs, groups, classes, built, use_counts, obs,
                   last, exitCall>>

\* options.reject_inheritance() in the class body, no names given.
BodyRejectAll ==
    /\ body # NoBody
    /\ ndecls < MaxDecls
    /\ ndecls' = ndecls + 1
    /\ body' = [body EXCEPT !.reject_all_inheritance = TRUE,
                            !.touched = TRUE]
    /\ UNCHANGED <<optcount, descs, groups, classes, built, use_counts, obs,
                   last, exitCall>>

\* The class object as the class statement leaves it: a body that used the
\* registry has it attached and filled by created_for.
class_created(cs, b) ==
    LET cs1 == [cs EXCEPT ![b.cls] =
                   [mro |-> b.mro, mat |-> b.touched, data |-> b.data,
                    reject_all_inheritance |-> b.reject_all_inheritance,
                    declared |-> b.data, own |-> b.data]]
    IN IF b.touched THEN created_for(cs1, b.cls) ELSE cs1

EndClass ==
    /\ body # NoBody
    /\ classes' = class_created(classes, body)
    /\ body' = NoBody
    /\ UNCHANGED <<optcount, descs, groups, built, use_counts, obs, last,
                   exitCall, ndecls>>

\* attributes that also stores the entries in the registries of the
\* subclasses that have one.
attributes_into_subclasses(ds, cs, c, d, attrname) ==
    LET cs1 == OptionsRegistry(cs, c)
        r == register(ds, d, cs1[c].data, cs1[c].own, attrname)
    IN [x \in ClassIds |->
           IF x = c THEN [cs1[c] EXCEPT !.data = r.data, !.own = r.own]
           ELSE IF cs1[x].mat /\ c \in Range(cs1[x].mro)
           THEN [cs1[x] EXCEPT !.data = DictUpdate(cs1[x].data, r.own)]
           ELSE cs1[x]]

\* options.attributes(cls, attrname = d) outside a class body.
attributes(ds, cs, c, d, attrname) ==
    LET cs1 == OptionsRegistry(cs, c)
        r == register(ds, d, cs1[c].data, cs1[c].own, attrname)
    IN [cs1 EXCEPT ![c].data = r.data, ![c].own = r.own]

Attributes(c, d, attrname) ==
    /\ body = NoBody
    /\ Defined(classes, c)
    /\ ndecls < MaxDecls
    /\ ndecls' = ndecls + 1
    /\ classes' = attributes(descs, classes, c, d, attrname)
    /\ UNCHANGED <<optcount, descs, groups, body, built, use_counts, obs,
                   last, exitCall>>

\* get_help(ob) for an object of class c: the parser make_parser returns is
\* formatted and dropped; what stays is the registry the call created.
GetHelp(c) ==
    /\ body = NoBody
    /\ Defined(classes, c)
    /\ classes' = OptionsRegistry(classes, c)
    /\ UNCHANGED <<optcount, descs, groups, body, built, use_counts, obs,
                   last, exitCall, ndecls>>

Step(limit) ==
    \/ \E bases \in BaseLists(classes) : BeginClass(limit, bases)
    \/ \E d \in DOMAIN descs, a \in AttrNames : BodyAttributes(d, a)
    \/ \E names \in RejectArgs : BodyReject(names)
    \/ BodyRejectAll
    \/ EndClass
    \/ \E c \in ClassIds, d \in DOMAIN descs, a \in AttrNames :
          Attributes(c, d, a)
    \/ \E c \in ClassIds : GetHelp(c)

Next == Step(MaxClasses)

Spec == Init /\ [][Next]_vars

\* The same program with room for one more class: diamonds of four classes.
NextWide == Step(MaxWideClasses)

SpecWide == Init /\ [][NextWide]_vars


----------------------------------------------------------------------------
(* Properties of Spec *)

\* The parser options of a parser in the order of its containers.
RECURSIVE Flatten(_, _)
Flatten(grps, i) ==
    IF i > Len(grps) THEN <<>>
    ELSE grps[i].option_list \o Flatten(grps, i + 1)

Emitted(parser) == parser.option_list \o Flatten(parser.option_groups, 1)

\* The parsers make_parser can build from the registry contents data, one
\* per iteration order.
ParsersFor(data) ==
    {make_parser(descs, groups, data, optinfo, gorder) :
        optinfo \in Perms(DOMAIN data),
        gorder \in Perms(BucketKeys(descs, data))}

ParsersOf(c) == ParsersFor(classes[c].data)

\* Position of class c in the mro of K (0: not in it).
MroIndex(K, c) ==
    IF c \in Range(classes[K].mro)
    THEN CHOOSE i \in DOMAIN classes[K].mro : classes[K].mro[i] = c
    ELSE 0

\* Class c rejected all inheritance and so suppressed the inherited name n.
BlanketSuppressed(c, n) ==
    /\ classes[c].reject_all_inheritance
    /\ n \in DOMAIN classes[c].data
    /\ n \notin DOMAIN classes[c].own

\* The body of class c declared or suppressed name n.
Declares(c, n) == n \in DOMAIN classes[c].declared \/ BlanketSuppressed(c, n)

\* The entry it made for n.
DeclaredEntry(c, n) ==
    IF n \in DOMAIN classes[c].declared THEN classes[c].declared[n]
    ELSE NoneEntry

\* The classes in the mro of K whose body declared or suppressed name n.
Declaring(K, n) == {c \in Range(classes[K].mro) : Declares(c, n)}

\* The one of them that comes first in the mro of K.
MostDerived(K, n) ==
    CHOOSE c \in Declaring(K, n) :
        \A x \in Declaring(K, n) : MroIndex(K, c) <= MroIndex(K, x)

\* C1: for every class K that has its registry and every option name that
\* the bodies of two or more classes in the mro of K declare or suppress,
\* the registry of K maps the name to the entry made by the declaring class
\* that comes first in the mro of K.
C1_MostDerivedDeclarationWins ==
    \A K \in ClassIds : \A n \in Names :
        (classes[K].mat /\ Cardinality(Declaring(K, n)) >= 2)
        => /\ n \in DOMAIN classes[K].data
           /\ classes[K].data[n] = DeclaredEntry(MostDerived(K, n), n)

\* A class K whose registry maps a name to another entry than the one its
\* most-derived declaring class made: K inherits the name along two paths.
C1_Diamond ==
    \E K \in ClassIds, n \in Names :
        /\ classes[K].mat
        /\ Cardinality(Declaring(K, n)) >= 2
        /\ ~classes[K].reject_all_inheritance
        /\ n \in DOMAIN classes[K].data
        /\ classes[K].data[n] # DeclaredEntry(MostDerived(K, n), n)

\* n is suppressed by B and declared by a class B inherits from.
Suppresses(B, A, n) ==
    /\ A \in Range(classes[B].mro) \ {B}
    /\ n \in DOMAIN classes[B].declared
    /\ classes[B].declared[n] = NoneEntry
    /\ n \in DOMAIN classes[A].declared
    /\ classes[A].declared[n] # NoneEntry

\* S is a subclass of B and no class before B in the mro of S declares n.
InheritsSuppression(S, B, n) ==
    /\ S # B
    /\ B \in Range(classes[S].mro)
    /\ \A x \in Range(classes[S].mro) :
          MroIndex(S, x) < MroIndex(S, B)
          => (n \notin DOMAIN classes[x].own /\ ~BlanketSuppressed(x, n))

\* C2: if A declares name n and its subclass B rejects n, no parser built
\* for B has an option named n, every parser built for A has one, and no
\* parser built for a subclass of B that does not declare n again has one.
C2_SuppressionBlocksInheritance ==
    \A A \in ClassIds, B \in ClassIds, n \in Names :
        (Suppresses(B, A, n) /\ classes[A].mat /\ classes[B].mat)
        => /\ \A p \in ParsersOf(B) : n \notin ParserNames(p)
           /\ \A p \in ParsersOf(A) : n \in ParserNames(p)
           /\ \A S \in ClassIds :
                 (classes[S].mat /\ InheritsSuppression(S, B, n))
                 => \A p \in ParsersOf(S) : n \notin ParserNames(p)

\* A subclass S of the rejecting class B, with no declaration of n before B
\* in its mro, for which a parser with an option named n is built.
C2_Diamond ==
    \E A \in ClassIds, B \in ClassIds, S \in ClassIds, n \in Names :
        /\ Suppresses(B, A, n)
        /\ classes[A].mat /\ classes[B].mat /\ classes[S].mat
        /\ InheritsSuppression(S, B, n)
        /\ \E p \in ParsersOf(S) : n \in ParserNames(p)

\* The names class c registered itself with a descriptor.
OwnOptionNames(c) ==
    {n \in DOMAIN classes[c].own : classes[c].own[n] # NoneEntry}

\* C3: every parser built for a class that rejected all inheritance accepts
\* exactly the option names the class registered itself, whatever its base
\* classes declare.
C3_BlanketRejection ==
    \A c \in ClassIds :
        (classes[c].mat /\ classes[c].reject_all_inheritance)
        => \A p \in ParsersOf(c) : ParserNames(p) = OwnOptionNames(c)

\* A class rejected all inheritance, one of its bases declares a name the
\* class leaves alone, and the class declares a name a base declares too.
C3_Witness ==
    \E c \in ClassIds :
        /\ classes[c].mat /\ classes[c].reject_all_inheritance
        /\ \E n \in Names, b \in Range(classes[c].mro) \ {c} :
              /\ n \in DOMAIN classes[b].declared
              /\ classes[b].declared[n] # NoneEntry
              /\ n \notin DOMAIN classes[c].own
        /\ \E n \in OwnOptionNames(c), b \in Range(classes[c].mro) \ {c} :
              /\ n \in DOMAIN classes[b].declared
              /\ classes[b].declared[n] # NoneEntry

\* The names of descriptor d that the registry data maps to d.
Surviving(data, d) ==
    {n \in Range(descs[d].option_names) :
        n \in DOMAIN data /\ data[n].opt = d}

\* C4: in every parser built for a class, each descriptor with a surviving
\* name is one parser option, whose names are the names of the descriptor
\* that the registry maps to it, in the descriptor's order; no option is
\* without names, and no name is on two options.
C4_OneOptionPerDescriptor ==
    \A c \in ClassIds : classes[c].mat =>
        \A p \in ParsersOf(c) :
            LET e == Emitted(p)
                data == classes[c].data
            IN /\ \A d \in DOMAIN descs :
                    Surviving(data, d) # {}
                    => Cardinality({i \in DOMAIN e : e[i].desc = d}) = 1
               /\ \A i \in DOMAIN e :
                    /\ e[i].names # <<>>
                    /\ e[i].names =
                         SelectSeq(descs[e[i].desc].option_names,
                            LAMBDA n : n \in Surviving(data, e[i].desc))
               /\ \A i, j \in DOMAIN e :
                    i # j => Range(e[i].names) \cap Range(e[j].names) = {}

\* A class whose registry holds one name of the two-name descriptor and not
\* the other: the alias is suppressed, or overridden by another descriptor.
C4_Witness ==
    \E c \in ClassIds :
        /\ classes[c].mat
        /\ Surviving(classes[c].data, 1) = {"--verbose"}
        /\ "-v" \in DOMAIN classes[c].data

\* C10: the registry of a class that has one changes only in a step that is
\* attributes(cls, ...) on that very class; a registration on another class
\* (a base class included) leaves it, and the parsers built from it, as they
\* were.
C10_RegistryIsSnapshot ==
    [][\A c \in ClassIds :
          (classes[c].mat /\ ~(\E d \in DOMAIN descs, a \in AttrNames :
                                  Attributes(c, d, a)))
          => /\ classes'[c].data = classes[c].data
             /\ ParsersFor(classes'[c].data) = ParsersFor(classes[c].data)]_vars

\* A base class holds an option that a subclass with a registry does not
\* hold at all: the option was registered after the subclass took its
\* snapshot.
C10_Witness ==
    \E c \in ClassIds, b \in ClassIds, n \in Names :
        /\ b # c /\ b \in Range(classes[c].mro)
        /\ classes[c].mat /\ classes[b].mat
        /\ n \in DOMAIN classes[b].data
        /\ classes[b].data[n] # NoneEntry
        /\ n \notin DOMAIN classes[c].data

----------------------------------------------------------------------------
(* SpecOrder: options and groups are constructed, registered on one class, *)
(* and make_parser orders them                                             *)

NamePool == <<"-a", "-b", "-c", "-d", "-e", "-f">>

SortKeys == 0..MaxSortKey

\* A class without bases whose body declares nothing.
PlainClass(cs, c) ==
    class_created(cs, [cls |-> c, mro |-> Linearise(cs, c, <<>>),
                       touched |-> FALSE, data |-> EmptyDict,
                       reject_all_inheritance |-> FALSE])

InitOrder ==
    /\ optcount = 0
    /\ descs = <<>>
    /\ groups = <<>>
    /\ classes = PlainClass([c \in ClassIds |-> NoClass], 1)
    /\ body = NoBody
    /\ ndecls = 0
    /\ InitRest

\* options.Group(title, sortKey=sortKey)
NewGroup(sortKey) ==
    /\ optcount < MaxObjects
    /\ groups' = Append(groups, Group(sortKey, optcount))
    /\ optcount' = gen_key(optcount)
    /\ UNCHANGED <<descs, classes, body, built, use_counts, obs, last,
                   exitCall, ndecls>>

\* options.attributes(cls, verbose = options.Set(name, value=1,
\* sortKey=sortKey, group=group)) with a fresh name: the option is made and
\* registered on class c.
NewOption(c, sortKey, group) ==
    /\ optcount < MaxObjects
    /\ LET d == Len(descs) + 1
           ds == Append(descs, AbstractOption("Set", <<NamePool[d]>>, FALSE,
                                              1, sortKey, group, "None",
                                              optcount))
       IN /\ descs' = ds
          /\ classes' = attributes(ds, classes, c, d, "verbose")
    /\ optcount' = gen_key(optcount)
    /\ UNCHANGED <<groups, body, built, use_counts, obs, last, exitCall,
                   ndecls>>

\* make_parser(ob) for an object of class c; the parser is kept.
MakeParser(c) ==
    /\ body = NoBody
    /\ Defined(classes, c)
    /\ LET cs1 == OptionsRegistry(classes, c)
           data == cs1[c].data
       IN /\ classes' = cs1
          /\ \E optinfo \in Perms(DOMAIN data),
                gorder \in Perms(BucketKeys(descs, data)) :
                built' = [cls |-> c,
                          parser |-> make_parser(descs, groups, data, optinfo,
                                                 gorder)]
    /\ UNCHANGED <<optcount, descs, groups, body, use_counts, obs, last,
                   exitCall, ndecls>>

NextOrder ==
    \/ \E k \in SortKeys : NewGroup(k)
    \/ \E k \in SortKeys, g \in {NoGroup} \cup DOMAIN groups :
          NewOption(1, k, g)
    \/ MakeParser(1)

SpecOrder == InitOrder /\ [][NextOrder]_vars

----------------------------------------------------------------------------
(* The parser's exit hook *)

\* Strings are sequences of characters; None is "no message given".
NoMsg == <<>>
Msg(m) == <<m>>

Whitespace == {" "}

StartsWith(m, prefix) ==
    Len(m) >= Len(prefix) /\ SubSeq(m, 1, Len(prefix)) = prefix

\* str.strip()
RECURSIVE LStrip(_)
LStrip(m) ==
    IF m # <<>> /\ m[1] \in Whitespace THEN LStrip(Tail(m)) ELSE m

Strip(m) == Reverse(LStrip(Reverse(LStrip(m))))

\* An exit hook that reports the message and returns to its caller.
exit_parser_returns(progname, status, msg) ==
    [outcome |-> "returned", msg |-> <<>>, status |-> 0]

\* _exit_parser(status, msg) of a parser made with prog = progname; msg is
\* NoMsg or Msg(text).
exit_parser(progname, status, msg) ==
    LET prog == progname \o <<":">>
    IN IF msg # NoMsg /\ msg[1] # <<>>
       THEN LET m == IF StartsWith(msg[1], prog)
                     THEN SubSeq(msg[1], Len(prog) + 1, Len(msg[1]))
                     ELSE msg[1]
            IN [outcome |-> "InvocationError", msg |-> Strip(m), status |-> 0]
       ELSE IF status # 0
       THEN [outcome |-> "SystemExit", msg |-> <<>>, status |-> status]
       ELSE [outcome |-> "returned", msg |-> <<>>, status |-> 0]

\* OptionParser.error(msg): exit(2, "<prog>: error: <msg>\n") on a parser
\* made with the default prog = ''.
parser_error == exit_parser(<<>>, 2, Msg(<<":", " ", "e">>))

----------------------------------------------------------------------------
(* SpecExit: the scanning primitive calls parser.exit(status, msg) *)

Chars == {"p", ":", " ", "e"}

Progs == {<<>>, <<"p">>}

Texts == UNION {[1..n -> Chars] : n \in 0..MaxMsgLen}

InitExit ==
    /\ optcount = 0
    /\ descs = <<>>
    /\ groups = <<>>
    /\ classes = [c \in ClassIds |-> NoClass]
    /\ body = NoBody
    /\ ndecls = 0
    /\ InitRest

ExitCall(progname, status, msg) ==
    /\ exitCall' = [prog |-> progname, status |-> status, msg |-> msg,
                    result |-> exit_parser(progname, status, msg)]
    /\ UNCHANGED <<optcount, descs, groups, classes, body, built, use_counts,
                   obs, last, ndecls>>

NextExit ==
    \E progname \in Progs, status \in 0..MaxStatus,
       msg \in {NoMsg} \cup {Msg(m) : m \in Texts} :
        ExitCall(progname, status, msg)

SpecExit == InitExit /\ [][NextExit]_vars

----------------------------------------------------------------------------
(* The option callbacks *)

\* A parser object that has no use_counts attribute yet.
NoCounts == [has |-> FALSE, counts |-> [d \in {} |-> 0]]

\* The type converter int: the argument texts it accepts; on any other text
\* it raises ValueError.
IntTexts == {"1", "2"}
IntOf(text) == IF text = "1" THEN 1 ELSE 2

\* AbstractOption.convert(option, value)
convert(ds, d, value) ==
    IF ds[d].typed
    THEN IF value \in IntTexts THEN [err |-> FALSE, value |-> IntOf(value)]
         ELSE [err |-> TRUE, value |-> 0]
    ELSE [err |-> FALSE, value |-> ds[d].value]

\* A repeat check that keeps its counts on the first parser object ever
\* made, whichever parser is scanning.
check_repeat_shared(ds, d, heap, pid) ==
    IF Repeatable(ds[d].kind) THEN [heap |-> heap, err |-> FALSE]
    ELSE LET counts == IF heap[1].has THEN heap[1].counts ELSE NoCounts.counts
             count == (IF d \in DOMAIN counts THEN counts[d] ELSE 0) + 1
         IN [heap |-> [heap EXCEPT ![1] =
                          [has |-> TRUE, counts |-> Put(counts, d, count)]],
             err |-> count > 1]

\* AbstractOption.check_repeat(option, parser): heap holds the use_counts
\* attribute of every parser object, pid is the parser of this call.
check_repeat(ds, d, heap, pid) ==
    IF Repeatable(ds[d].kind) THEN [heap |-> heap, err |-> FALSE]
    ELSE LET counts == IF heap[pid].has THEN heap[pid].counts
                       ELSE NoCounts.counts
             count == (IF d \in DOMAIN counts THEN counts[d] ELSE 0) + 1
         IN [heap |-> [heap EXCEPT ![pid] =
                          [has |-> TRUE, counts |-> Put(counts, d, count)]],
             err |-> count > 1]

\* What a callback leaves: the parsers' use_counts, the target's attributes
\* (parser.values), and the InvocationError it raised, if any.
Outcome(heap, values, error) ==
    [heap |-> heap, values |-> values, error |-> error]

\* A Set callback that stores the value before it checks for repetition.
Set_callback_applies_first(ds, d, value, heap, pid, values, attrname) ==
    LET r == check_repeat(ds, d, heap, pid)
        v == convert(ds, d, value)
    IN IF v.err THEN Outcome(r.heap, values, "invalid")
       ELSE IF r.err
       THEN Outcome(r.heap, [values EXCEPT ![attrname] = v.value], "once")
       ELSE Outcome(r.heap, [values EXCEPT ![attrname] = v.value], "none")

\* Set.callback
Set_callback(ds, d, value, heap, pid, values, attrname) ==
    LET r == check_repeat(ds, d, heap, pid)
        v == convert(ds, d, value)
    IN IF r.err THEN Outcome(r.heap, values, "once")
       ELSE IF v.err THEN Outcome(r.heap, values, "invalid")
       ELSE Outcome(r.heap, [values EXCEPT ![attrname] = v.value], "none")

\* Add.callback
Add_callback(ds, d, value, heap, pid, values, attrname) ==
    LET r == check_repeat(ds, d, heap, pid)
        v == convert(ds, d, value)
    IN IF r.err THEN Outcome(r.heap, values, "once")
       ELSE IF v.err THEN Outcome(r.heap, values, "invalid")
       ELSE Outcome(r.heap,
                    [values EXCEPT ![attrname] = values[attrname] + v.value],
                    "none")

\* Append.callback, the attribute holding a list
Append_callback(ds, d, value, heap, pid, values, attrname) ==
    LET r == check_repeat(ds, d, heap, pid)
        v == convert(ds, d, value)
    IN IF r.err THEN Outcome(r.heap, values, "once")
       ELSE IF v.err THEN Outcome(r.heap, values, "invalid")
       ELSE Outcome(r.heap,
                    [values EXCEPT ![attrname] =
                        Append(values[attrname], v.value)],
                    "none")

\* The two handler functions of the model: "zapify" stores the option value
\* on the target, "refuse" raises InvocationError.
HandlerFunctions == {"zapify", "refuse"}

\* Handler.callback
Handler_callback(ds, d, value, heap, pid, values, attrname) ==
    LET r == check_repeat(ds, d, heap, pid)
        v == convert(ds, d, value)
    IN IF r.err THEN Outcome(r.heap, values, "once")
       ELSE IF v.err THEN Outcome(r.heap, values, "invalid")
       ELSE IF ds[d].function = "refuse"
       THEN Outcome(r.heap, values, "handler")
       ELSE Outcome(r.heap, [values EXCEPT !.zapped = v.value], "none")

\* option.callback(option, opt, value, parser, attrname), by option class
callback(ds, d, value, heap, pid, values, attrname) ==
    CASE ds[d].kind = "Set" ->
            Set_callback(ds, d, value, heap, pid, values, attrname)
      [] ds[d].kind = "Add" ->
            Add_callback(ds, d, value, heap, pid, values, attrname)
      [] ds[d].kind = "Append" ->
            Append_callback(ds, d, value, heap, pid, values, attrname)
      [] ds[d].kind = "Handler" ->
            Handler_callback(ds, d, value, heap, pid, values, attrname)

----------------------------------------------------------------------------
(* SpecParse: parse and get_help on target objects *)

OptTokens == {"--db", "-d", "--inc", "-z", "-n"}
Tokens == OptTokens \cup {"1", "2", "x"}
NoArg == "<end>"

\* Set('--db', '-d', type=int), Append('--inc', type=int),
\* Handler('-z', value=1, function=f), Add('-n', value=1), made in this
\* order.
ParsePool(f) ==
    LET d1 == AbstractOption("Set", <<"--db", "-d">>, TRUE, 0, 0, NoGroup,
                             "None", 0)
        d2 == AbstractOption("Append", <<"--inc">>, TRUE, 0, 0, NoGroup,
                             "None", d1.sort_stable)
        d3 == AbstractOption("Handler", <<"-z">>, FALSE, 1, 0, NoGroup, f,
                             d2.sort_stable)
        d4 == AbstractOption("Add", <<"-n">>, FALSE, 1, 0, NoGroup, "None",
                             d3.sort_stable)
    IN <<d1, d2, d3, d4>>

\* class A: options.attributes(dbURL=d1, items=d2, count=d4) and the handler
\* d3 (registered with attribute name None);
\* class B(A): options.reject_inheritance('-d').
ParseClasses(ds) ==
    LET cs0 == [c \in ClassIds |-> NoClass]
        r1 == register(ds, 1, EmptyDict, EmptyDict, "dbURL")
        r2 == register(ds, 2, r1.data, r1.data, "items")
        r3 == register(ds, 3, r2.data, r2.data, "None")
        r4 == register(ds, 4, r3.data, r3.data, "count")
        csA == class_created(cs0,
                   [cls |-> 1, mro |-> Linearise(cs0, 1, <<>>),
                    touched |-> TRUE, data |-> r4.data,
                    reject_all_inheritance |-> FALSE])
        rB == SetAll(EmptyDict, EmptyDict, <<"-d">>, 1, NoneEntry)
    IN class_created(csA,
           [cls |-> 2, mro |-> Linearise(csA, 2, <<1>>),
            touched |-> TRUE, data |-> rB.data,
            reject_all_inheritance |-> FALSE])

\* A target object: its class and its attributes, as its constructor leaves
\* them (dbURL unset is 0; items an empty list).
NewTarget(cls) ==
    [cls |-> cls, dbURL |-> 0, items |-> <<>>, count |-> 0, zapped |-> 0]

NoCalls == [d \in {} |-> 0]

InitParse ==
    /\ \E f \in HandlerFunctions :
        /\ descs = ParsePool(f)
        /\ classes = ParseClasses(ParsePool(f))
    /\ optcount = 4
    /\ groups = <<>>
    /\ body = NoBody
    /\ ndecls = 0
    /\ built = [cls |-> 0, parser |-> NoParser]
    /\ use_counts = <<>>
    /\ obs = <<NewTarget(1), NewTarget(2)>>
    /\ last = NoLast
    /\ exitCall = NoExit

InCall == last.op = "parse" /\ last.status = "scanning"

\* parse(ob, args) up to the call of parse_args: make_parser builds a new
\* parser object for the class of ob.
BeginParse(ob) ==
    /\ ~InCall
    /\ Len(use_counts) < MaxParses
    /\ LET c == obs[ob].cls
           cs1 == OptionsRegistry(classes, c)
           data == cs1[c].data
       IN /\ classes' = cs1
          /\ \E optinfo \in Perms(DOMAIN data),
                gorder \in Perms(BucketKeys(descs, data)) :
                built' = [cls |-> c,
                          parser |-> make_parser(descs, groups, data, optinfo,
                                                 gorder)]
    /\ use_counts' = Append(use_counts, NoCounts)
    /\ last' = [op |-> "parse", ob |-> ob, pid |-> Len(use_counts) + 1,
                status |-> "scanning", error |-> "none", pos |-> 0,
                calls |-> NoCalls, args |-> <<>>, before |-> obs[ob]]
    /\ UNCHANGED <<optcount, descs, groups, body, obs, exitCall, ndecls>>

\* get_help(ob): a new parser object is built and formatted; nothing is
\* scanned.
ParseGetHelp(ob) ==
    /\ ~InCall
    /\ Len(use_counts) < MaxParses
    /\ LET c == obs[ob].cls
           cs1 == OptionsRegistry(classes, c)
           data == cs1[c].data
       IN /\ classes' = cs1
          /\ \E optinfo \in Perms(DOMAIN data),
                gorder \in Perms(BucketKeys(descs, data)) :
                built' = [cls |-> c,
                          parser |-> make_parser(descs, groups, data, optinfo,
                                                 gorder)]
    /\ use_counts' = Append(use_counts, NoCounts)
    /\ last' = [op |-> "get_help", ob |-> ob, pid |-> Len(use_counts) + 1,
                status |-> "returned", error |-> "none", pos |-> 0,
                calls |-> NoCalls, args |-> <<>>, before |-> obs[ob]]
    /\ UNCHANGED <<optcount, descs, groups, body, obs, exitCall, ndecls>>

\* The parser option that lists the name tok: a set with one element, or
\* empty.
Lookup(parser, tok) == {o \in AllOptions(parser) : tok \in Range(o.names)}

\* How the scan goes on after an error was reported through parser.error:
\* the exit hook raises, or returns to the scanner.
AfterError(l, pos, error) ==
    IF parser_error.outcome = "returned"
    THEN [l EXCEPT !.pos = pos]
    ELSE [l EXCEPT !.pos = pos, !.status = "raised", !.error = error]

\* The record of a parse call with one more option string consumed.
Consumed(l, tok, val) == [l EXCEPT !.args = Append(l.args, <<tok, val>>)]

\* One round of the scanner's loop on an option string tok, followed in the
\* argument list by val (NoArg: the list ends after tok).
ScanOption(tok, val) ==
    /\ InCall
    /\ tok \in OptTokens
    /\ last.pos < MaxArgs
    /\ LET found == Lookup(built.parser, tok)
       IN IF found = {}
          THEN /\ val = NoArg
               /\ last' = AfterError(Consumed(last, tok, val), last.pos + 1,
                                     "nosuch")
               /\ UNCHANGED <<obs, use_counts>>
          ELSE LET o == CHOOSE x \in found : TRUE
               IN IF o.nargs = 1 /\ val = NoArg
                  THEN /\ last' = AfterError(Consumed(last, tok, val),
                                            last.pos + 1, "noarg")
                       /\ UNCHANGED <<obs, use_counts>>
                  ELSE /\ o.nargs = 1 \/ val = NoArg
                       /\ last.pos + 1 + o.nargs <= MaxArgs
                       /\ LET r == callback(descs, o.desc, val, use_counts,
                                            last.pid, obs[last.ob], o.attr)
                              n == IF o.desc \in DOMAIN last.calls
                                   THEN last.calls[o.desc] ELSE 0
                          IN /\ use_counts' = r.heap
                             /\ obs' = [obs EXCEPT ![last.ob] = r.values]
                             /\ last' =
                                  [Consumed(last, tok, val) EXCEPT
                                     !.pos = last.pos + 1 + o.nargs,
                                     !.calls = Put(last.calls, o.desc, n + 1),
                                     !.status = IF r.error = "none"
                                                THEN "scanning" ELSE "raised",
                                     !.error = r.error]
    /\ UNCHANGED <<optcount, descs, groups, classes, body, built, exitCall,
                   ndecls>>

\* The scanner meets the end of the argument list or an argument that is no
\* option (interspersed arguments are disabled): parse returns the rest.
ParseReturns ==
    /\ InCall
    /\ last' = [last EXCEPT !.status = "returned"]
    /\ UNCHANGED <<optcount, descs, groups, classes, body, built, use_counts,
                   obs, exitCall, ndecls>>

NextParse ==
    \/ \E ob \in DOMAIN obs : BeginParse(ob)
    \/ \E ob \in DOMAIN obs : ParseGetHelp(ob)
    \/ \E tok \in OptTokens, val \in Tokens \cup {NoArg} : ScanOption(tok, val)
    \/ ParseReturns

SpecParse == InitParse /\ [][NextParse]_vars

----------------------------------------------------------------------------
(* Properties of SpecParse *)

\* The descriptor an option string of the last call's parser selects, or
\* NoOpt.
DescOf(tok) ==
    IF Lookup(built.parser, tok) = {} THEN NoOpt
    ELSE (CHOOSE o \in Lookup(built.parser, tok) : TRUE).desc

\* How often the first n arguments name descriptor d.
RECURSIVE Uses(_, _, _)
Uses(args, n, d) ==
    IF n = 0 THEN 0
    ELSE Uses(args, n - 1, d) + (IF DescOf(args[n][1]) = d THEN 1 ELSE 0)

\* The converted values of the valid '--inc' arguments, in argument order.
RECURSIVE IncValues(_)
IncValues(args) ==
    IF args = <<>> THEN <<>>
    ELSE LET rest == IncValues(Tail(args))
         IN IF args[1][1] = "--inc" /\ args[1][2] \in IntTexts
            THEN <<IntOf(args[1][2])>> \o rest ELSE rest

\* A scanning step of the current call: one more option string is consumed.
ScanStep ==
    /\ InCall
    /\ last'.op = "parse" /\ last'.pid = last.pid
    /\ Len(last'.args) = Len(last.args) + 1

\* The option string the step consumed, and its descriptor.
StepTok == last'.args[Len(last'.args)][1]
StepDesc == DescOf(StepTok)

\* The step invoked the callback of its descriptor (the scanner found the
\* option and the argument it takes).
CallbackStep == ScanStep /\ last'.calls # last.calls

\* C5: within one parse call, the second invocation of a non-repeatable
\* descriptor (Set or Handler), by the same name or by another alias, raises
\* 'can only be used once' and leaves the target as it was; throughout a
\* call, the list attribute of the repeatable Append option equals what it
\* held before the call followed by the converted '--inc' values in
\* argument order, however often '--inc' is repeated.
C5_SecondUseRaises ==
    /\ [](last.op = "parse" =>
            obs[last.ob].items =
                last.before.items \o IncValues(last.args))
    /\ [][(/\ CallbackStep
           /\ ~Repeatable(descs[StepDesc].kind)
           /\ Uses(last.args, Len(last.args), StepDesc) >= 1)
          => /\ last'.status = "raised"
             /\ last'.error = "once"
             /\ obs' = obs]_vars

\* '--db' and then its alias '-d' were given and the second raised 'can
\* only be used once', on a target whose list holds two different values
\* that '--inc' appended.
C5_Witness ==
    /\ last.op = "parse" /\ last.status = "raised" /\ last.error = "once"
    /\ \E i, j \in DOMAIN last.args :
          i < j /\ last.args[i][1] = "--db" /\ last.args[j][1] = "-d"
    /\ Len(obs[last.ob].items) = 2
    /\ obs[last.ob].items[1] # obs[last.ob].items[2]
    /\ obs[last.ob].dbURL # 0

\* The use_counts entry of descriptor d on parser object pid, 0 if none.
CountOn(pid, d) ==
    IF use_counts[pid].has /\ d \in DOMAIN use_counts[pid].counts
    THEN use_counts[pid].counts[d] ELSE 0

\* C6: repeat-check state does not carry over between calls: whatever
\* parse and get_help calls came before, a parse call raises 'can only be
\* used once' only if its own arguments name one non-repeatable descriptor
\* twice, and the counts its parser holds are those of its own arguments.
C6_NoCarryOver ==
    last.op = "parse" =>
        /\ last.error = "once" =>
              \E d \in DOMAIN descs :
                  /\ ~Repeatable(descs[d].kind)
                  /\ Uses(last.args, Len(last.args), d) >= 2
        /\ \A d \in DOMAIN descs :
              ~Repeatable(descs[d].kind) =>
                  CountOn(last.pid, d) =
                      (IF d \in DOMAIN last.calls THEN last.calls[d] ELSE 0)

\* An earlier parse call failed on a repeated Set option; a later call on a
\* target of the subclass used that option once and returned.
C6_Witness ==
    /\ last.op = "parse" /\ last.pid = 2 /\ last.status = "returned"
    /\ obs[last.ob].cls = 2
    /\ \E d \in DOMAIN descs :
          /\ descs[d].kind = "Set"
          /\ CountOn(1, d) = 2
          /\ Uses(last.args, Len(last.args), d) = 1

\* The step's callback has a reason to fail: a repeated non-repeatable
\* descriptor, an argument its type does not convert, a handler that
\* refuses.
StepMustFail ==
    LET d == descs[StepDesc]
        val == last'.args[Len(last'.args)][2]
    IN \/ /\ ~Repeatable(d.kind)
          /\ Uses(last.args, Len(last.args), StepDesc) >= 1
       \/ d.typed /\ val \notin IntTexts
       \/ d.kind = "Handler" /\ d.function = "refuse"

\* C8: a failure at a position of the argument list ends the parse call at
\* once. An unknown option, a repeat violation, a bad conversion and a
\* refusing handler each raise in the step that meets them; that step and
\* every later step leave the target as it was, so nothing after the
\* failure is invoked and nothing done before it is rolled back; the value
\* a Set option stored on its first use is still on the target whenever the
\* call has gone on or failed later.
C8_FailureAborts ==
    /\ [][(last.op = "parse" /\ last.status = "raised")
          => /\ obs' = obs
             /\ (last'.op = "parse" /\ last'.pid = last.pid) => last' = last
       ]_vars
    /\ [][(ScanStep /\ StepDesc = NoOpt)
          => last'.status = "raised" /\ last'.error = "nosuch"]_vars
    /\ [][(CallbackStep /\ StepMustFail) => last'.status = "raised"]_vars
    /\ [][(ScanStep /\ last'.status = "raised") => obs' = obs]_vars
    /\ [](last.op = "parse" =>
            \A i \in DOMAIN last.args :
                LET d == DescOf(last.args[i][1])
                IN (/\ d # NoOpt
                    /\ descs[d].kind = "Set"
                    /\ last.args[i][2] \in IntTexts
                    /\ Uses(last.args, i - 1, d) = 0)
                   => obs[last.ob].dbURL = IntOf(last.args[i][2]))

\* The first parse call stored a Set value, added to the counter, and was
\* then ended by its handler's InvocationError: the stored value is on the
\* target.
C8_Witness ==
    /\ last.op = "parse" /\ last.pid = 1
    /\ last.status = "raised" /\ last.error = "handler"
    /\ Len(last.args) = 3
    /\ obs[last.ob].dbURL # last.before.dbURL

----------------------------------------------------------------------------
(* Properties of SpecOrder *)

\* (sortKey, creation order) of a parser option and of an option group.
OptionKey(o) == <<descs[o.desc].sortKey, descs[o.desc].sort_stable>>
GroupKey(g) == <<groups[g.group].sortKey, groups[g.group].sort_stable>>

\* Python's < on two such pairs.
PairLess(a, b) == a[1] < b[1] \/ (a[1] = b[1] /\ a[2] < b[2])

Ascending(keys) ==
    \A i \in 1..(Len(keys) - 1) : PairLess(keys[i], keys[i + 1])

\* C7: the parser make_parser returns is ordered by (sortKey, creation
\* order) alone: the options added to the parser itself are the ungrouped
\* ones, strictly ascending; the groups are strictly ascending by the
\* Group's key, each holding the options of that group, strictly ascending;
\* and every iteration order of the registry and of the group buckets
\* gives this same parser.
C7_OrderIsDeterministic ==
    [][built' # built =>
        LET parser == built'.parser
            data == classes'[built'.cls].data
        IN /\ \A i \in DOMAIN parser.option_list :
                 descs[parser.option_list[i].desc].group = NoGroup
           /\ Ascending([i \in DOMAIN parser.option_list |->
                            OptionKey(parser.option_list[i])])
           /\ Ascending([i \in DOMAIN parser.option_groups |->
                            GroupKey(parser.option_groups[i])])
           /\ \A i \in DOMAIN parser.option_groups :
                 LET g == parser.option_groups[i]
                 IN /\ \A j \in DOMAIN g.option_list :
                          descs[g.option_list[j].desc].group = g.group
                    /\ Ascending([j \in DOMAIN g.option_list |->
                                     OptionKey(g.option_list[j])])
           /\ \A optinfo \in Perms(DOMAIN data),
                 gorder \in Perms(BucketKeys(descs, data)) :
                 make_parser(descs, groups, data, optinfo, gorder) = parser
    ]_vars

\* A parser whose two ungrouped options stand in the reverse of their
\* creation order (the later one has the smaller sortKey), with an option
\* group after them.
C7_Witness ==
    /\ built.cls = 1
    /\ Len(built.parser.option_list) = 2
    /\ built.parser.option_list[1].desc > built.parser.option_list[2].desc
    /\ Len(built.parser.option_groups) = 1
    /\ Len(built.parser.option_groups[1].option_list) = 1

----------------------------------------------------------------------------
(* Properties of SpecExit *)

\* C9: for every call exit(status, msg): a non-empty msg raises
\* InvocationError carrying msg without a leading '<prog>:' and stripped of
\* surrounding whitespace; no message raises SystemExit carrying the
\* status, for zero as for every other status.
C9_ExitAlwaysRaises ==
    exitCall # NoExit =>
        LET r == exitCall.result
            prog == exitCall.prog \o <<":">>
        IN IF exitCall.msg # NoMsg /\ exitCall.msg[1] # <<>>
           THEN /\ r.outcome = "InvocationError"
                /\ r.msg = Strip(IF StartsWith(exitCall.msg[1], prog)
                                 THEN SubSeq(exitCall.msg[1], Len(prog) + 1,
                                             Len(exitCall.msg[1]))
                                 ELSE exitCall.msg[1])
           ELSE IF exitCall.msg = NoMsg
           THEN r.outcome = "SystemExit" /\ r.status = exitCall.status
           ELSE TRUE

\* exit() with neither a message nor a status, as the scanner calls it
\* after printing help or the version: the hook returns to the scanner.
C9_ExitReturns ==
    /\ exitCall # NoExit
    /\ exitCall.msg = NoMsg
    /\ exitCall.status = 0
    /\ exitCall.result.outcome = "returned"

====
